---- MODULE Spec2Model ----
(***************************************************************************)
(* Model of the Expo push client: the backoff policy, the retry executor   *)
(* (Client.WithRetry), the publish pipeline (Client.publish, Publish,      *)
(* PublishSingle), the receipt fetch (Client.GetPushReceipts), the receipt *)
(* workflow (Client.SendPushNotificationsWithReceipts) and the             *)
(* classification of its results (PushResult).                             *)
(*                                                                         *)
(* Conventions.  A Go string is a sequence (of characters for tokens, of   *)
(* one opaque symbol for ticket identifiers), so "" is <<>>.  A pointer    *)
(* that may be nil is a record with an isNil field.  An error value is a   *)
(* record with a msg field, NilErr being the nil error.  Durations are     *)
(* counted in seconds.  The messages of a batch are non-nil pointers.      *)
(***************************************************************************)
EXTENDS Integers, Sequences, FiniteSets, TLC

(***************************************************************************)
(* Bounds of the model                                                     *)
(***************************************************************************)
MaxRetriesBound == 2
MaxMsgs == 2
MaxTo == 2
MaxAttemptArg == 4
MaxIntervalArg == 3
MaxMultiplier == 3
MaxReceiptDelay == 2

(***************************************************************************)
(* Errors                                                                  *)
(***************************************************************************)
NilErr == [msg |-> "nil"]

Err(m) == [msg |-> m]

\* the errors built by publish and checkStatus
ErrNoRecipients == Err("no recipients")

ErrInvalidPushToken == Err("invalid push token")

ErrTooManyNotifications(n, max) == [msg |-> "too many notifications", n |-> n, max |-> max]

ErrInvalidRequest == Err("invalid request")

ErrInvalidResponse(code) == [msg |-> "invalid response", StatusCode |-> code]

\* part_000: NewServerError / ServerError
NewServerError(message, response) == [msg |-> message, Response |-> response]

\* context.Context.Err(): the two causes a context ends with
CtxErrors == {Err("context canceled"), Err("context deadline exceeded")}

\* errors of the transport (http.Client.Do, http.NewRequestWithContext)
TransportErrors == {Err("connection refused"), Err("i/o timeout")}

(***************************************************************************)
(* Tokens, messages, tickets                                               *)
(***************************************************************************)
TokenPrefix == <<"E","x","p","o","n","e","n","t","P","u","s","h","T","o","k","e","n">>

HasPrefix(s, prefix) ==
  /\ Len(s) >= Len(prefix)
  /\ SubSeq(s, 1, Len(prefix)) = prefix

\* ParseToken succeeds exactly on the strings IsPushTokenValid accepts
IsPushTokenValid(token) == HasPrefix(token, TokenPrefix)

NilToken == [isNil |-> TRUE, str |-> <<>>]

Token(s) == [isNil |-> FALSE, str |-> s]

ValidToken == Token(TokenPrefix \o <<"[","a","]">>)

MalformedToken == Token(<<"a","b","c">>)

EmptyToken == Token(<<>>)

Message(ptr, to) == [ptr |-> ptr, To |-> to]

NoMessage == [ptr |-> 0, To |-> <<>>]

SeqsUpTo(S, n) == UNION {[1..k -> S] : k \in 0..n}

(***************************************************************************)
(* HTTP responses                                                          *)
(***************************************************************************)
NoBody == [kind |-> "none"]

NilResp == [isNil |-> TRUE, StatusCode |-> 0, Body |-> NoBody]

Response(code, body) == [isNil |-> FALSE, StatusCode |-> code, Body |-> body]

\* net/http status codes named by IsRetryableError
StatusTooManyRequests == 429

StatusInternalServerError == 500

StatusBadGateway == 502

StatusServiceUnavailable == 503

StatusGatewayTimeout == 504

StatusOK == 200

\* every client and server error status taken as retryable
IsRetryableErrorAnyFailure(statusCode) == statusCode >= 400

IsRetryableError(statusCode) ==
  statusCode \in {StatusTooManyRequests, StatusInternalServerError, StatusBadGateway,
                  StatusServiceUnavailable, StatusGatewayTimeout}

\* the status codes a server answers with in the model
StatusCodes == {200, 299, 301, 400, 404, 429, 500, 501, 502, 503, 504}

(***************************************************************************)
(* The body of a reply of /push/send as json.Decoder sees it               *)
(***************************************************************************)
\* part_000: MessageResponse (a push ticket); a null element of "data" is a nil pointer
MessageResponse(id, status, message) ==
  [isNil |-> FALSE, MessageItem |-> NoMessage, ID |-> id, Status |-> status, Message |-> message]

NilMessageResponse ==
  [isNil |-> TRUE, MessageItem |-> NoMessage, ID |-> <<>>, Status |-> "", Message |-> ""]

TicketPatterns == {"ok", "error", "mixed", "null"}

\* the i-th ticket of a data array written after pattern p
TicketAt(p, i) ==
  CASE p = "ok" -> MessageResponse(<<i>>, "ok", "")
    [] p = "error" -> MessageResponse(<<>>, "error", "failed")
    [] p = "mixed" -> IF i % 2 = 1 THEN MessageResponse(<<i>>, "ok", "")
                                   ELSE MessageResponse(<<>>, "error", "failed")
    [] p = "errid" -> IF i % 2 = 1 THEN MessageResponse(<<i>>, "ok", "")
                                   ELSE MessageResponse(<<i>>, "error", "failed")
    [] p = "noid" -> IF i % 2 = 1 THEN MessageResponse(<<>>, "ok", "")
                                  ELSE MessageResponse(<<i>>, "ok", "")
    [] p = "dup" -> MessageResponse(<<1>>, "ok", "")
    [] OTHER -> IF i = 1 THEN NilMessageResponse ELSE MessageResponse(<<i>>, "ok", "")

DataOf(p, n) == [i \in 1..n |-> TicketAt(p, i)]

GarbageBody ==
  [kind |-> "garbage", ErrorsNil |-> TRUE, Errors |-> <<>>, DataNil |-> TRUE, Data |-> <<>>]

\* the JSON text null: Decode leaves the *Response nil and reports no error
NullBody ==
  [kind |-> "null", ErrorsNil |-> TRUE, Errors |-> <<>>, DataNil |-> TRUE, Data |-> <<>>]

\* part_000: Response, decoded from a JSON object; a slice is nil when its key is
\* absent or null and is empty, not nil, when the key holds []
ResponseBody(errorsNil, errors, dataNil, data) ==
  [kind |-> "object", ErrorsNil |-> errorsNil, Errors |-> errors, DataNil |-> dataNil, Data |-> data]

ApiError == [code |-> "API_ERROR"]

DataLengths(e) == {n \in {0, e - 1, e, e + 1} : n >= 0}

\* the bodies a server answers a batch of e (message, recipient) pairs with
BodiesFor(e) ==
  {GarbageBody, NullBody, ResponseBody(TRUE, <<>>, TRUE, <<>>)}
    \cup {ResponseBody(TRUE, <<>>, FALSE, DataOf(p, n)) : p \in TicketPatterns, n \in DataLengths(e)}
    \cup {ResponseBody(FALSE, errs, TRUE, <<>>) : errs \in {<<>>, <<ApiError>>}}
    \cup {ResponseBody(FALSE, errs, FALSE, DataOf("ok", n)) :
             errs \in {<<>>, <<ApiError>>}, n \in {e, e + 1}}

(***************************************************************************)
(* RetryConfig and the backoff policy                                      *)
(***************************************************************************)
\* a float64 is an exact rational num/den with den > 0
Float(num, den) == [num |-> num, den |-> den]

\* float64(d) of an integer
FloatOf(i) == Float(i, 1)

FloatMul(a, b) == Float(a.num * b.num, a.den * b.den)

RECURSIVE IntPow(_, _)
IntPow(x, y) == IF y <= 0 THEN 1 ELSE x * IntPow(x, y - 1)

\* math.Pow(x, y) for an integer y >= 0 (math.Pow(x, 0) is 1 for every x)
Pow(x, y) == Float(IntPow(x.num, y), IntPow(x.den, y))

\* time.Duration(f): conversion of a float64 to int64 truncates toward zero
DurationOf(f) ==
  IF f.num >= 0 THEN f.num \div f.den ELSE -((-f.num) \div f.den)

RetryConfig(maxRetries, initial, max, mult) ==
  [isNil |-> FALSE, MaxRetries |-> maxRetries, InitialInterval |-> initial,
   MaxInterval |-> max, Multiplier |-> mult]

NilRetryConfig ==
  [isNil |-> TRUE, MaxRetries |-> 0, InitialInterval |-> 0, MaxInterval |-> 0,
   Multiplier |-> Float(0, 1)]

DefaultRetryConfig == RetryConfig(3, 1, 30, Float(2, 1))

\* the exponent taken as attempt instead of attempt-1
ExponentialBackoffOffByOne(c, n) ==
  IF n <= 0
    THEN c.InitialInterval
    ELSE LET duration == FloatMul(FloatOf(c.InitialInterval), Pow(c.Multiplier, n))
             d == DurationOf(duration)
         IN  IF d > c.MaxInterval THEN c.MaxInterval ELSE d

\* the cap of MaxInterval left out
ExponentialBackoffUncapped(c, n) ==
  IF n <= 0
    THEN c.InitialInterval
    ELSE DurationOf(FloatMul(FloatOf(c.InitialInterval), Pow(c.Multiplier, n - 1)))

\* option.go lines 109-122
ExponentialBackoff(c, n) ==
  IF n <= 0
    THEN c.InitialInterval
    ELSE LET duration == FloatMul(FloatOf(c.InitialInterval), Pow(c.Multiplier, n - 1))
             d == DurationOf(duration)
         IN  IF d > c.MaxInterval THEN c.MaxInterval ELSE d

(***************************************************************************)
(* The pure parts of Client.publish                                        *)
(***************************************************************************)
maxNotificationsPerRequest == 100

\* client.go line 55: recipient == nil || *recipient == ""
RecipientInvalid(recipient) == recipient.isNil \/ recipient.str = <<>>

\* client.go lines 51-58: the checks on one message
ValidateRecipients(to) ==
  IF Len(to) = 0 THEN ErrNoRecipients
  ELSE IF \E j \in 1..Len(to) : RecipientInvalid(to[j]) THEN ErrInvalidPushToken
  ELSE NilErr

RECURSIVE ValidateRange(_, _, _)
\* client.go lines 50-59 on the messages lo..hi: the first message that fails
\* decides (the range is walked by halves, which keeps the evaluation shallow)
ValidateRange(ms, lo, hi) ==
  IF lo > hi THEN NilErr
  ELSE IF lo = hi THEN ValidateRecipients(ms[lo].To)
  ELSE LET mid == (lo + hi) \div 2
           e == ValidateRange(ms, lo, mid)
       IN  IF e # NilErr THEN e ELSE ValidateRange(ms, mid + 1, hi)

\* the limit compared one too high
TooManyNotificationsOffByOne(n) == n > maxNotificationsPerRequest + 1

TooManyNotifications(n) == n > maxNotificationsPerRequest

\* client.go lines 50-65
Validate(ms) ==
  LET e == ValidateRange(ms, 1, Len(ms))
  IN  IF e # NilErr THEN e
      ELSE IF TooManyNotifications(Len(ms))
        THEN ErrTooManyNotifications(Len(ms), maxNotificationsPerRequest)
      ELSE NilErr

RECURSIVE ExpandRange(_, _, _)
\* client.go lines 131-135 on the messages lo..hi: one entry per (message,
\* recipient) pair, in order (the range is walked by halves)
ExpandRange(ms, lo, hi) ==
  IF lo > hi THEN <<>>
  ELSE IF lo = hi THEN [j \in 1..Len(ms[lo].To) |-> ms[lo]]
  ELSE LET mid == (lo + hi) \div 2
       IN  ExpandRange(ms, lo, mid) \o ExpandRange(ms, mid + 1, hi)

\* client.go lines 130-135
expandedMessages(ms) == ExpandRange(ms, 1, Len(ms))

\* every status below 400 taken as a success
checkStatusBelow400(r) ==
  IF r.StatusCode >= StatusOK /\ r.StatusCode < 400
    THEN NilErr
    ELSE ErrInvalidResponse(r.StatusCode)

\* client.go lines 206-211
checkStatus(r) ==
  IF r.StatusCode >= StatusOK /\ r.StatusCode <= 299
    THEN NilErr
    ELSE ErrInvalidResponse(r.StatusCode)

\* json.Decoder.Decode fails: the body is empty or is not the JSON of a Response
ErrDecode == Err("json: cannot decode body")

ErrMismatch(expected, received, response) ==
  [msg |-> "mismatched response length", expected |-> expected, received |-> received,
   Response |-> response]

Returned(tickets, e) == [ticketsNil |-> FALSE, tickets |-> tickets, err |-> e]

\* an empty, non-nil ticket list returned next to the error
FailedWithEmptyList(e) == [ticketsNil |-> FALSE, tickets |-> <<>>, err |-> e]

Failed(e) == [ticketsNil |-> TRUE, tickets |-> <<>>, err |-> e]

\* the call did not return: a nil pointer was dereferenced
Panicked == [ticketsNil |-> TRUE, tickets |-> <<>>, err |-> Err("panic: nil pointer dereference")]

\* the expansion walked from its end
AssignMessagesReversed(data, expanded) ==
  [i \in 1..Len(data) |-> [data[i] EXCEPT !.MessageItem = expanded[Len(expanded) - i + 1]]]

\* client.go lines 143-145
AssignMessages(data, expanded) ==
  [i \in 1..Len(data) |-> [data[i] EXCEPT !.MessageItem = expanded[i]]]

\* only a data array longer than the expansion rejected
CountMismatchOnlyLonger(expanded, data) == Len(data) > Len(expanded)

\* client.go line 137: the count check
CountMismatch(expanded, data) == Len(expanded) # Len(data)

\* client.go lines 113-146: what publish makes of the response r to the batch ms
HandleResponse(ms, r) ==
  IF checkStatus(r) # NilErr THEN Failed(checkStatus(r))
  ELSE IF r.Body.kind \in {"garbage", "none"} THEN Failed(ErrDecode)
  ELSE IF r.Body.kind = "null" THEN Panicked
  ELSE IF ~r.Body.ErrorsNil THEN Failed(ErrInvalidRequest)
  ELSE IF r.Body.DataNil THEN Failed(NewServerError("invalid server response", r))
  ELSE LET expanded == expandedMessages(ms)
           data == r.Body.Data
       IN  IF CountMismatch(expanded, data)
             THEN Failed(ErrMismatch(Len(expanded), Len(data), r))
           ELSE IF \E i \in 1..Len(data) : data[i].isNil THEN Panicked
           ELSE Returned(AssignMessages(data, expanded), NilErr)

\* client.go lines 108-146: publish after WithRetry returned w
AfterRetry(ms, w) ==
  IF w.err # NilErr THEN Failed(w.err)
  ELSE IF w.resp.isNil THEN Panicked
  ELSE HandleResponse(ms, w.resp)

\* client.go lines 32-38
PublishSingleRet(p) ==
  IF p.err # NilErr THEN Failed(p.err) ELSE [p EXCEPT !.err = NilErr]

\* client.go lines 32-46: what the exported function returns of publish's result
EntryRet(e, p) == IF e = "PublishSingle" THEN PublishSingleRet(p) ELSE p

(***************************************************************************)
(* Receipts and results (part_000, part_001)                               *)
(***************************************************************************)
ErrorMsgDeviceNotRegistered == "DeviceNotRegistered"

ErrorMsgRateExceeded == "MessageRateExceeded"

\* part_000: Data (map[string]string) as the details of a receipt: nil, or a map
\* that holds the key "error" or does not
NilDetails == [isNil |-> TRUE, hasError |-> FALSE, error |-> ""]

EmptyDetails == [isNil |-> FALSE, hasError |-> FALSE, error |-> ""]

DetailsWithError(code) == [isNil |-> FALSE, hasError |-> TRUE, error |-> code]

\* Details["error"]: the zero value "" when the key is absent (or the map nil)
DetailsError(d) == IF d.hasError THEN d.error ELSE ""

DetailsValues ==
  {NilDetails, EmptyDetails, DetailsWithError(ErrorMsgDeviceNotRegistered),
   DetailsWithError(ErrorMsgRateExceeded)}

\* part_000: PushReceipt; a null value of the "data" object is a nil pointer
PushReceipt(status, message, details) ==
  [isNil |-> FALSE, Status |-> status, Message |-> message, Details |-> details]

NilPushReceipt == [isNil |-> TRUE, Status |-> "", Message |-> "", Details |-> NilDetails]

\* part_000 lines 127-129
MessageResponseIsOk(r) == r.Status = "ok"

\* part_000 lines 174-176
PushReceiptIsOk(r) == r.Status = "ok"

\* part_000 lines 179-184
IsDeviceNotRegistered(r) ==
  IF r.Details.isNil THEN FALSE
  ELSE DetailsError(r.Details) = ErrorMsgDeviceNotRegistered

\* part_001: PushResult; PushTicket and PushReceipt are pointers
PushResult(ticketID, message, ticket, receipt, e) ==
  [TicketID |-> ticketID, Message |-> message, PushTicket |-> ticket,
   PushReceipt |-> receipt, Error |-> e]

\* part_001 lines 19-23
IsSuccessful(r) ==
  /\ r.Error = NilErr
  /\ ~r.PushTicket.isNil /\ MessageResponseIsOk(r.PushTicket)
  /\ ~r.PushReceipt.isNil /\ PushReceiptIsOk(r.PushReceipt)

\* every result with an error taken as retry-eligible
ShouldRetryTokenErrorOnly(r) == r.Error # NilErr

\* part_001 lines 26-33
ShouldRetryToken(r) ==
  IF ~r.PushReceipt.isNil /\ ~r.PushReceipt.Details.isNil
    THEN DetailsError(r.PushReceipt.Details) # ErrorMsgDeviceNotRegistered
    ELSE r.Error # NilErr

\* part_001 line 58
TicketError(t) == [msg |-> "push ticket error", text |-> t.Message]

\* part_001 line 95
ReceiptError(rc) == [msg |-> "push receipt error", text |-> rc.Message]

\* part_001 line 41 and line 84: fmt.Errorf with %w
Wrap(prefix, e) == [msg |-> prefix, cause |-> e]

\* a ticket counted eligible whenever it carries an identifier
EligibleByIDOnly(t) == t.ID # <<>>

\* part_001 line 54
Eligible(t) == MessageResponseIsOk(t) /\ t.ID # <<>>

\* part_001 lines 49-59: the result made of one ticket
NewPushResult(t) ==
  IF Eligible(t)
    THEN PushResult(t.ID, t.MessageItem, t, NilPushReceipt, NilErr)
    ELSE PushResult(<<>>, t.MessageItem, t, NilPushReceipt, TicketError(t))

\* the results filled from the end of the ticket list
CollectResultsReversed(tickets) ==
  [i \in 1..Len(tickets) |-> NewPushResult(tickets[Len(tickets) - i + 1])]

\* part_001 lines 46-62: results
CollectResults(tickets) == [i \in 1..Len(tickets) |-> NewPushResult(tickets[i])]

\* part_001 lines 45-62: ticketIDs
CollectTicketIDs(tickets) ==
  LET eligible == SelectSeq(tickets, Eligible)
  IN  [i \in 1..Len(eligible) |-> eligible[i].ID]

\* 15 * time.Minute, in seconds
DefaultReceiptDelay == 15 * 60

\* a delay of zero taken as it is
EffectiveDelayNoDefault(d) == d

\* part_001 lines 65-67
EffectiveDelay(d) == IF d = 0 THEN DefaultReceiptDelay ELSE d

\* the instants the clock of the model shows during the wait for the receipts
Instants ==
  (0..(MaxReceiptDelay + 1))
    \cup {DefaultReceiptDelay - 1, DefaultReceiptDelay, DefaultReceiptDelay + 1}

NextInstant(t) == CHOOSE u \in Instants : u > t /\ \A v \in Instants : v > t => u <= v

maxReceiptsPerRequest == 1000

ErrTooManyTicketIDs(n, max) == [msg |-> "too many ticket IDs", n |-> n, max |-> max]

\* a map[string]*PushReceipt without entries (a nil map reads the same)
EmptyMap == [id \in {} |-> NilPushReceipt]

\* what GetPushReceipts returns: the receipt map (nil or not) and the error
Receipts(m) == [mapNil |-> FALSE, receipts |-> m, err |-> NilErr]

NilReceipts == [mapNil |-> TRUE, receipts |-> EmptyMap, err |-> NilErr]

FetchFailed(e) == [mapNil |-> TRUE, receipts |-> EmptyMap, err |-> e]

FetchPanicked ==
  [mapNil |-> TRUE, receipts |-> EmptyMap, err |-> Err("panic: nil pointer dereference")]

NoFetchRet == [mapNil |-> TRUE, receipts |-> EmptyMap, err |-> Err("not returned")]

\* the number a ticket identifier of the model is made of
IDNumber(id) == id[1]

ReceiptPatterns == {"ok", "okdetails", "dnr", "rate", "bare", "mixed", "foreign", "null"}

\* the identifiers the "data" object written after pattern p has a receipt for
ReceiptKeys(p, ids) ==
  LET asked == {ids[i] : i \in 1..Len(ids)}
  IN  CASE p = "mixed" -> {id \in asked : IDNumber(id) % 4 # 2}
        [] p = "foreign" -> {<<0>>}
        [] OTHER -> asked

\* the receipt of identifier id in a "data" object written after pattern p
ReceiptAt(p, id) ==
  CASE p = "ok" -> PushReceipt("ok", "", NilDetails)
    [] p = "okdetails" -> PushReceipt("ok", "", EmptyDetails)
    [] p = "dnr" ->
         PushReceipt("error", "not registered", DetailsWithError(ErrorMsgDeviceNotRegistered))
    [] p = "rate" ->
         PushReceipt("error", "rate exceeded", DetailsWithError(ErrorMsgRateExceeded))
    [] p = "bare" -> PushReceipt("error", "failed", NilDetails)
    [] p = "mixed" ->
         (CASE IDNumber(id) % 4 = 1 -> PushReceipt("ok", "", NilDetails)
            [] IDNumber(id) % 4 = 3 ->
                 PushReceipt("error", "not registered",
                             DetailsWithError(ErrorMsgDeviceNotRegistered))
            [] OTHER -> PushReceipt("error", "failed", EmptyDetails))
    [] p = "foreign" -> PushReceipt("ok", "", NilDetails)
    [] OTHER -> NilPushReceipt

ReceiptData(p, ids) == [id \in ReceiptKeys(p, ids) |-> ReceiptAt(p, id)]

\* part_000: PushReceiptResponse, decoded from a JSON object
ReceiptBody(errorsNil, errors, dataNil, data) ==
  [kind |-> "object", ErrorsNil |-> errorsNil, Errors |-> errors, DataNil |-> dataNil,
   Data |-> data]

\* the bodies a server answers a request for the receipts of ids with
ReceiptBodiesFor(ids) ==
  {GarbageBody, NullBody, ReceiptBody(TRUE, <<>>, TRUE, EmptyMap)}
    \cup {ReceiptBody(TRUE, <<>>, FALSE, ReceiptData(p, ids)) : p \in ReceiptPatterns}
    \cup {ReceiptBody(FALSE, errs, FALSE, ReceiptData("ok", ids)) :
             errs \in {<<>>, <<ApiError>>}}

\* the status of the reply not looked at
HandleReceiptResponseIgnoresStatus(o) ==
  IF o.err # NilErr THEN FetchFailed(o.err)
  ELSE IF o.resp.Body.kind \in {"garbage", "none"} THEN FetchFailed(ErrDecode)
  ELSE IF o.resp.Body.kind = "null" THEN FetchPanicked
  ELSE IF ~o.resp.Body.ErrorsNil
    THEN FetchFailed(NewServerError("error fetching receipts", o.resp))
  ELSE IF o.resp.Body.DataNil THEN NilReceipts
  ELSE Receipts(o.resp.Body.Data)

\* client.go lines 184-203: what GetPushReceipts makes of the outcome o of
\* HttpClient.Do
HandleReceiptResponse(o) ==
  IF o.err # NilErr THEN FetchFailed(o.err)
  ELSE IF checkStatus(o.resp) # NilErr THEN FetchFailed(checkStatus(o.resp))
  ELSE IF o.resp.Body.kind \in {"garbage", "none"} THEN FetchFailed(ErrDecode)
  ELSE IF o.resp.Body.kind = "null" THEN FetchPanicked
  ELSE IF ~o.resp.Body.ErrorsNil
    THEN FetchFailed(NewServerError("error fetching receipts", o.resp))
  ELSE IF o.resp.Body.DataNil THEN NilReceipts
  ELSE Receipts(o.resp.Body.Data)

\* what SendPushNotificationsWithReceipts returns: the results (nil or not) and
\* the error
SendReturned(results, e) == [resultsNil |-> FALSE, results |-> results, err |-> e]

SendFailed(e) == [resultsNil |-> TRUE, results |-> <<>>, err |-> e]

NoSendRet == [resultsNil |-> TRUE, results |-> <<>>, err |-> Err("not returned")]

\* the results dropped when the fetch fails
ReceiptFetchFailedDropsResults(results, e) == SendFailed(e)

\* part_001 lines 83-85
ReceiptFetchFailed(results, e) == SendReturned(results, e)

\* a non-ok receipt attached without an error
MatchReceiptNoError(result, receipts) ==
  IF result.TicketID # <<>> /\ result.TicketID \in DOMAIN receipts
    THEN [result EXCEPT !.PushReceipt = receipts[result.TicketID]]
    ELSE result

\* part_001 lines 89-98: one iteration of the matching loop
MatchReceipt(result, receipts) ==
  IF result.TicketID # <<>> /\ result.TicketID \in DOMAIN receipts
    THEN LET receipt == receipts[result.TicketID]
         IN  [result EXCEPT !.PushReceipt = receipt,
                            !.Error = IF ~PushReceiptIsOk(receipt)
                                        THEN ReceiptError(receipt) ELSE @]
    ELSE result

\* part_001 lines 88-99
MatchReceipts(results, receipts) ==
  [i \in 1..Len(results) |-> MatchReceipt(results[i], receipts)]

\* line 94 calls IsOk on a nil *PushReceipt
MatchPanics(results, receipts) ==
  \E i \in 1..Len(results) :
    /\ results[i].TicketID # <<>>
    /\ results[i].TicketID \in DOMAIN receipts
    /\ receipts[results[i].TicketID].isNil

(***************************************************************************)
(* State                                                                   *)
(***************************************************************************)
VARIABLES
  entry,        \* the exported function the caller invoked
  retryConfig,  \* the *RetryConfig handed to WithRetry (Config.RetryConfig for publish)
  msgs,         \* publish: the batch
  ctxErr,       \* ctx.Err(): NilErr until the context is done
  pc,           \* position of the call
  attempt,      \* WithRetry: loop variable
  lastErr,      \* WithRetry: lastErr
  resp,         \* WithRetry: resp
  backoff,      \* WithRetry: duration handed to time.After; ExponentialBackoff: result
  timerFired,   \* the channel of time.After is ready
  calls,        \* number of invocations of fn started so far
  inflight,     \* number of invocations of fn started and not returned
  last,         \* what the latest invocation of fn returned
  wrRet,        \* what WithRetry returned
  ret,          \* what Publish / PublishSingle returned
  cancelWait,   \* the attempt whose backoff wait the context was cancelled in, or -1
  receiptDelay, \* SendPushNotificationsWithReceipts: the argument receiptDelay
  delay,        \* receiptDelay after lines 65-67, handed to time.After
  elapsed,      \* time gone by since the wait for the receipts began
  results,      \* SendPushNotificationsWithReceipts: results
  ticketIDs,    \* the identifiers handed to GetPushReceipts
  fetchCalls,   \* number of invocations of HttpClient.Do made by GetPushReceipts
  fetchLast,    \* what that invocation returned
  fetchRet,     \* what GetPushReceipts returned
  sendRet,      \* what SendPushNotificationsWithReceipts returned
  cancelReceiptWait, \* the context was cancelled during the wait for the receipts
  pushResult,   \* ShouldRetryToken: the receiver
  shouldRetry   \* ShouldRetryToken: the value returned

sendVars == <<receiptDelay, delay, elapsed, results, ticketIDs, fetchCalls, fetchLast,
              fetchRet, sendRet, cancelReceiptWait, pushResult, shouldRetry>>

vars == <<entry, retryConfig, msgs, ctxErr, pc, attempt, lastErr, resp, backoff,
          timerFired, calls, inflight, last, wrRet, ret, cancelWait, sendVars>>

\* WithRetry lines 126-128: a nil config is replaced by the defaults
\* (NewClient's withDefaults does the same to Config.RetryConfig)
Cfg == IF retryConfig.isNil THEN DefaultRetryConfig ELSE retryConfig

Outcome(r, e) == [resp |-> r, err |-> e]

NoOutcome == [resp |-> NilResp, err |-> Err("not called")]

NoRet == [ticketsNil |-> TRUE, tickets |-> <<>>, err |-> Err("not returned")]

NoWithRetryRet == Outcome(NilResp, Err("not returned"))

(***************************************************************************)
(* Inputs                                                                  *)
(***************************************************************************)
\* k valid recipients
Recipients(k) == [j \in 1..k |-> ValidToken]

\* batches of distinct messages that all have valid recipients
ValidBatches ==
  {[i \in 1..Len(rs) |-> Message(i, Recipients(rs[i]))] : rs \in SeqsUpTo(1..MaxTo, MaxMsgs)}

\* a batch that holds one message twice
AliasedBatches == {<<Message(1, Recipients(k)), Message(1, Recipients(k))>> : k \in 1..MaxTo}

\* the batch ms with one recipient replaced by a nil or an empty token, or with
\* the recipients of one message removed
Defects(ms) ==
  UNION {{[ms EXCEPT ![i].To[j] = tok] :
            j \in 1..Len(ms[i].To), tok \in {NilToken, EmptyToken}}
           \cup {[ms EXCEPT ![i].To = <<>>]} : i \in 1..Len(ms)}

DefectiveBatches == UNION {Defects(ms) : ms \in ValidBatches}

\* a valid batch whose last recipient does not carry the prefix of a push token
MalformedBatches ==
  {[ms EXCEPT ![Len(ms)].To[Len(ms[Len(ms)].To)] = MalformedToken] :
     ms \in ValidBatches \ {<<>>}}

SmallBatches == ValidBatches \cup AliasedBatches \cup DefectiveBatches \cup MalformedBatches

\* batches at and just above the limit of publish
BigBatches ==
  {[i \in 1..n |-> Message(i, to)] :
     n \in {maxNotificationsPerRequest, maxNotificationsPerRequest + 1},
     to \in {<<ValidToken>>, <<ValidToken, ValidToken>>}}

Batches == SmallBatches \cup BigBatches

\* configurations of the retry executor
RetryConfigs ==
  {NilRetryConfig}
    \cup {RetryConfig(m, 1, 2, Float(2, 1)) : m \in -1..MaxRetriesBound}
    \cup {RetryConfig(MaxRetriesBound, 3, 2, Float(2, 1))}

\* configurations of the client that publishes (Config.RetryConfig)
PublishRetryConfigs == {RetryConfig(m, 1, 2, Float(2, 1)) : m \in -1..1}

\* configurations ExponentialBackoff is evaluated on
BackoffConfigs ==
  {RetryConfig(0, i, m, f) :
     i \in -1..MaxIntervalArg, m \in -1..MaxIntervalArg,
     f \in {Float(k, 1) : k \in -1..MaxMultiplier} \cup {Float(1, 2), Float(3, 2)}}

\* batches SendPushNotificationsWithReceipts is called with
SmallSendBatches ==
  {<<>>,
   <<Message(1, Recipients(1))>>,
   <<Message(1, Recipients(MaxTo)), Message(2, Recipients(1))>>,
   <<Message(1, Recipients(MaxTo)), Message(2, Recipients(MaxTo))>>,
   <<Message(1, <<NilToken>>)>>}

\* 100 messages with more tickets than GetPushReceipts takes identifiers
BigSendBatches ==
  {[i \in 1..maxNotificationsPerRequest |->
      Message(i, Recipients(maxReceiptsPerRequest \div maxNotificationsPerRequest + 1))]}

SendRetryConfigs == {RetryConfig(m, 1, 2, Float(2, 1)) : m \in 0..1}

ReceiptDelays == -1..MaxReceiptDelay

\* the data arrays a server answers SendPushNotificationsWithReceipts with
SendTicketPatterns(e) ==
  IF e > maxNotificationsPerRequest
    THEN {"ok"}
    ELSE {"ok", "error", "mixed", "errid", "noid", "dup"}

\* the identifier lists GetPushReceipts is called with
TicketIDLists ==
  {[i \in 1..n |-> <<i>>] : n \in {0, 1, 2, maxReceiptsPerRequest, maxReceiptsPerRequest + 1}}
    \cup {<<<<1>>, <<1>>>>}

NoPushResult == PushResult(<<>>, NoMessage, NilMessageResponse, NilPushReceipt, NilErr)

\* the results ShouldRetryToken is called on
PushResults ==
  {PushResult(t.ID, NoMessage, t, rc, e) :
     t \in {MessageResponse(<<1>>, "ok", ""), MessageResponse(<<>>, "error", "failed")},
     rc \in {NilPushReceipt}
              \cup {PushReceipt(st, "", d) : st \in {"ok", "error"}, d \in DetailsValues},
     e \in {NilErr, Err("push ticket error"), Err("push receipt error")}}

\* what the invocation of HttpClient.Do in GetPushReceipts can return
\* (client.go lines 173-186)
FetchOutcomes ==
  {Outcome(NilResp, e) : e \in TransportErrors \cup ({ctxErr} \ {NilErr})}
    \cup {Outcome(Response(code, NoBody), NilErr) : code \in {301, 400, 429, 503}}
    \cup {Outcome(Response(StatusOK, b), NilErr) : b \in ReceiptBodiesFor(ticketIDs)}

\* what one invocation of the action handed to WithRetry can return
Outcomes ==
  IF entry = "WithRetry"
    THEN {Outcome(NilResp, NilErr)}
           \cup {Outcome(NilResp, e) : e \in TransportErrors}
           \cup {Outcome(Response(StatusInternalServerError, NoBody), e) : e \in TransportErrors}
           \cup {Outcome(Response(code, NoBody), NilErr) : code \in StatusCodes}
    ELSE IF entry = "SendPushNotificationsWithReceipts"
      THEN LET e == Len(expandedMessages(msgs))
           IN  {Outcome(NilResp, err) : err \in {Err("connection refused")} \cup ({ctxErr} \ {NilErr})}
                 \cup {Outcome(Response(code, NoBody), NilErr) : code \in {400, 503}}
                 \cup {Outcome(Response(StatusOK, ResponseBody(TRUE, <<>>, FALSE, DataOf(p, e))),
                               NilErr) : p \in SendTicketPatterns(e)}
                 \cup {Outcome(Response(StatusOK, ResponseBody(TRUE, <<>>, FALSE,
                                                               DataOf("ok", e + 1))), NilErr)}
    ELSE \* client.go lines 88-107: http.NewRequestWithContext, then HttpClient.Do
         {Outcome(NilResp, e) : e \in TransportErrors \cup ({ctxErr} \ {NilErr})}
           \cup {Outcome(Response(code, NoBody), NilErr) : code \in StatusCodes \ {StatusOK, 299}}
           \cup {Outcome(Response(StatusOK, b), NilErr) :
                    b \in BodiesFor(Len(expandedMessages(msgs)))}
           \cup {Outcome(Response(299, ResponseBody(TRUE, <<>>, FALSE,
                                   DataOf("ok", Len(expandedMessages(msgs))))), NilErr)}

(***************************************************************************)
(* Initial states: one call of one exported function                       *)
(***************************************************************************)
InitLocals ==
  /\ ctxErr = NilErr
  /\ attempt = 0
  /\ lastErr = NilErr
  /\ resp = NilResp
  /\ backoff = 0
  /\ timerFired = FALSE
  /\ calls = 0
  /\ inflight = 0
  /\ last = NoOutcome
  /\ wrRet = NoWithRetryRet
  /\ ret = NoRet
  /\ cancelWait = -1

InitSendLocals ==
  /\ delay = 0
  /\ elapsed = 0
  /\ results = <<>>
  /\ fetchCalls = 0
  /\ fetchLast = NoOutcome
  /\ fetchRet = NoFetchRet
  /\ sendRet = NoSendRet
  /\ cancelReceiptWait = FALSE
  /\ shouldRetry = FALSE

\* the entries that take no receiptDelay, identifier list or result
InitNoSend ==
  /\ receiptDelay = 0
  /\ ticketIDs = <<>>
  /\ pushResult = NoPushResult
  /\ InitSendLocals

InitWithRetry ==
  /\ entry = "WithRetry"
  /\ retryConfig \in RetryConfigs
  /\ msgs = <<>>
  /\ pc = "retry_loop"
  /\ InitLocals
  /\ InitNoSend

InitPublish ==
  /\ entry = "Publish"
  /\ retryConfig \in PublishRetryConfigs
  /\ msgs \in Batches
  /\ pc = "publish"
  /\ InitLocals
  /\ InitNoSend

InitPublishSingle ==
  /\ entry = "PublishSingle"
  /\ retryConfig \in PublishRetryConfigs
  /\ msgs \in {b \in SmallBatches : Len(b) = 1}
  /\ pc = "publish"
  /\ InitLocals
  /\ InitNoSend

InitExponentialBackoff ==
  /\ entry = "ExponentialBackoff"
  /\ retryConfig \in BackoffConfigs
  /\ msgs = <<>>
  /\ pc = "backoff"
  /\ InitLocals
  /\ InitNoSend

InitSendPushNotificationsWithReceipts ==
  /\ entry = "SendPushNotificationsWithReceipts"
  /\ \/ /\ retryConfig \in SendRetryConfigs
        /\ msgs \in SmallSendBatches
        /\ receiptDelay \in ReceiptDelays
     \/ /\ retryConfig = RetryConfig(0, 1, 2, Float(2, 1))
        /\ msgs \in BigSendBatches
        /\ receiptDelay = 1
  /\ ticketIDs = <<>>
  /\ pushResult = NoPushResult
  /\ pc = "publish"
  /\ InitLocals
  /\ InitSendLocals

InitGetPushReceipts ==
  /\ entry = "GetPushReceipts"
  /\ retryConfig \in {RetryConfig(1, 1, 2, Float(2, 1))}
  /\ msgs = <<>>
  /\ receiptDelay = 0
  /\ ticketIDs \in TicketIDLists
  /\ pushResult = NoPushResult
  /\ pc = "fetch"
  /\ InitLocals
  /\ InitSendLocals

InitShouldRetryToken ==
  /\ entry = "ShouldRetryToken"
  /\ retryConfig = NilRetryConfig
  /\ msgs = <<>>
  /\ receiptDelay = 0
  /\ ticketIDs = <<>>
  /\ pushResult \in PushResults
  /\ pc = "classify"
  /\ InitLocals
  /\ InitSendLocals

Init ==
  \/ InitWithRetry
  \/ InitPublish
  \/ InitPublishSingle
  \/ InitExponentialBackoff
  \/ InitSendPushNotificationsWithReceipts
  \/ InitGetPushReceipts
  \/ InitShouldRetryToken

(***************************************************************************)
(* RetryConfig.ExponentialBackoff called on its own                        *)
(***************************************************************************)
CallExponentialBackoff ==
  /\ pc = "backoff"
  /\ \E n \in -1..MaxAttemptArg :
       /\ attempt' = n
       /\ backoff' = ExponentialBackoff(retryConfig, n)
  /\ pc' = "done"
  /\ UNCHANGED sendVars
  /\ UNCHANGED <<entry, retryConfig, msgs, ctxErr, lastErr, resp, timerFired, calls,
                 inflight, last, wrRet, ret, cancelWait>>

(***************************************************************************)
(* The environment: the context ends, the timer of time.After fires        *)
(***************************************************************************)
Running == pc \notin {"done", "panic", "backoff", "classify"}

Cancel ==
  /\ Running
  /\ ctxErr = NilErr
  /\ ctxErr' \in CtxErrors
  /\ cancelWait' = IF pc = "wait" THEN attempt ELSE cancelWait
  /\ cancelReceiptWait' = (cancelReceiptWait \/ pc = "receipt_wait")
  /\ UNCHANGED <<receiptDelay, delay, elapsed, results, ticketIDs, fetchCalls, fetchLast,
                 fetchRet, sendRet, pushResult, shouldRetry>>
  /\ UNCHANGED <<entry, retryConfig, msgs, pc, attempt, lastErr, resp, backoff,
                 timerFired, calls, inflight, last, wrRet, ret>>

TimerFire ==
  /\ pc = "wait"
  /\ ~timerFired
  /\ timerFired' = TRUE
  /\ UNCHANGED sendVars
  /\ UNCHANGED <<entry, retryConfig, msgs, ctxErr, pc, attempt, lastErr, resp, backoff,
                 calls, inflight, last, wrRet, ret, cancelWait>>

(***************************************************************************)
(* Client.WithRetry                                                        *)
(***************************************************************************)
\* the loop allowed one iteration more
LoopConditionOffByOne(c, n) == n <= c.MaxRetries + 1

\* option.go line 133: the loop condition
LoopCondition(c, n) == n <= c.MaxRetries

\* where the caller of WithRetry goes on
AfterWithRetry == IF entry = "WithRetry" THEN "done" ELSE "publish_resp"

\* option.go lines 133-135 and 162: the head of one iteration, up to the select
\* statement or the invocation, or the return after the last iteration
RetryLoop ==
  /\ pc = "retry_loop"
  /\ IF LoopCondition(Cfg, attempt)
       THEN IF attempt > 0
              THEN /\ backoff' = ExponentialBackoff(Cfg, attempt)
                   /\ timerFired' = FALSE
                   /\ pc' = "wait"
                   /\ UNCHANGED wrRet
              ELSE /\ pc' = "call"
                   /\ UNCHANGED <<backoff, timerFired, wrRet>>
       ELSE /\ wrRet' = Outcome(NilResp, lastErr)
            /\ pc' = AfterWithRetry
            /\ UNCHANGED <<backoff, timerFired>>
  /\ UNCHANGED sendVars
  /\ UNCHANGED <<entry, retryConfig, msgs, ctxErr, attempt, lastErr, resp, calls,
                 inflight, last, ret, cancelWait>>

\* option.go lines 137-138: the select statement takes the case <-ctx.Done()
SelectCtxDone ==
  /\ pc = "wait"
  /\ ctxErr # NilErr
  /\ wrRet' = Outcome(NilResp, ctxErr)
  /\ pc' = AfterWithRetry
  /\ UNCHANGED sendVars
  /\ UNCHANGED <<entry, retryConfig, msgs, ctxErr, attempt, lastErr, resp, backoff,
                 timerFired, calls, inflight, last, ret, cancelWait>>

\* option.go lines 139-141: the select statement takes the case <-time.After(backoff);
\* when both channels are ready Go chooses one of the two cases at random
SelectTimer ==
  /\ pc = "wait"
  /\ timerFired
  /\ pc' = "call"
  /\ UNCHANGED sendVars
  /\ UNCHANGED <<entry, retryConfig, msgs, ctxErr, attempt, lastErr, resp, backoff,
                 timerFired, calls, inflight, last, wrRet, ret, cancelWait>>

\* option.go line 144: fn is called
FnCall ==
  /\ pc = "call"
  /\ calls' = calls + 1
  /\ inflight' = inflight + 1
  /\ pc' = "in_fn"
  /\ UNCHANGED sendVars
  /\ UNCHANGED <<entry, retryConfig, msgs, ctxErr, attempt, lastErr, resp, backoff,
                 timerFired, last, wrRet, ret, cancelWait>>

\* lastErr left untouched on a retryable status
RetryableErrorNotRecorded(r) == NilErr

\* option.go lines 151-154
RetryableError(r) == NewServerError("retryable error", r)

\* option.go lines 144-159: fn returns o; the iteration ends with continue or return
FnReturn ==
  /\ pc = "in_fn"
  /\ \E o \in Outcomes :
       /\ last' = o
       /\ resp' = o.resp
       /\ IF o.err # NilErr
            THEN /\ lastErr' = o.err
                 /\ attempt' = attempt + 1
                 /\ pc' = "retry_loop"
                 /\ UNCHANGED wrRet
            ELSE IF ~o.resp.isNil /\ IsRetryableError(o.resp.StatusCode)
              THEN /\ lastErr' = RetryableError(o.resp)
                   /\ attempt' = attempt + 1
                   /\ pc' = "retry_loop"
                   /\ UNCHANGED wrRet
              ELSE /\ lastErr' = o.err
                   /\ wrRet' = Outcome(o.resp, o.err)
                   /\ pc' = AfterWithRetry
                   /\ UNCHANGED attempt
  /\ inflight' = inflight - 1
  /\ UNCHANGED sendVars
  /\ UNCHANGED <<entry, retryConfig, msgs, ctxErr, backoff, timerFired, calls, ret,
                 cancelWait>>

(***************************************************************************)
(* Client.publish behind Publish and PublishSingle                         *)
(***************************************************************************)
\* where the caller of Publish goes on
AfterPublish == IF entry = "SendPushNotificationsWithReceipts" THEN "collect" ELSE "done"

\* client.go lines 48-88: validation, then the call of WithRetry
PublishValidate ==
  /\ pc = "publish"
  /\ IF Validate(msgs) # NilErr
       THEN /\ ret' = EntryRet(entry, Failed(Validate(msgs)))
            /\ pc' = AfterPublish
       ELSE /\ pc' = "retry_loop"
            /\ UNCHANGED ret
  /\ UNCHANGED sendVars
  /\ UNCHANGED <<entry, retryConfig, msgs, ctxErr, attempt, lastErr, resp, backoff,
                 timerFired, calls, inflight, last, wrRet, cancelWait>>

\* client.go lines 108-146: WithRetry has returned
PublishResponse ==
  /\ pc = "publish_resp"
  /\ LET p == AfterRetry(msgs, wrRet)
     IN  IF p = Panicked
           THEN pc' = "panic" /\ UNCHANGED ret
           ELSE pc' = AfterPublish /\ ret' = EntryRet(entry, p)
  /\ UNCHANGED sendVars
  /\ UNCHANGED <<entry, retryConfig, msgs, ctxErr, attempt, lastErr, resp, backoff,
                 timerFired, calls, inflight, last, wrRet, cancelWait>>

(***************************************************************************)
(* Client.GetPushReceipts                                                  *)
(***************************************************************************)
\* the limit compared one too high
TooManyTicketIDsOffByOne(n) == n > maxReceiptsPerRequest + 1

\* client.go line 161
TooManyTicketIDs(n) == n > maxReceiptsPerRequest

\* where the caller of GetPushReceipts goes on
AfterFetch == IF entry = "GetPushReceipts" THEN "done" ELSE "match"

\* the early return for an empty list left out
NoTicketIDsNever(ids) == Len(ids) < 0

\* client.go line 155
NoTicketIDs(ids) == Len(ids) = 0

\* client.go lines 155-183: the early returns, or the invocation of HttpClient.Do
GetPushReceiptsCall ==
  /\ pc = "fetch"
  /\ IF NoTicketIDs(ticketIDs)
       THEN /\ fetchRet' = Receipts(EmptyMap)
            /\ pc' = AfterFetch
            /\ UNCHANGED fetchCalls
       ELSE IF TooManyTicketIDs(Len(ticketIDs))
         THEN /\ fetchRet' = FetchFailed(ErrTooManyTicketIDs(Len(ticketIDs),
                                                              maxReceiptsPerRequest))
              /\ pc' = AfterFetch
              /\ UNCHANGED fetchCalls
         ELSE /\ fetchCalls' = fetchCalls + 1
              /\ pc' = "in_fetch"
              /\ UNCHANGED fetchRet
  /\ UNCHANGED <<entry, retryConfig, msgs, ctxErr, attempt, lastErr, resp, backoff,
                 timerFired, calls, inflight, last, wrRet, ret, cancelWait>>
  /\ UNCHANGED <<receiptDelay, delay, elapsed, results, ticketIDs, fetchLast, sendRet,
                 cancelReceiptWait, pushResult, shouldRetry>>

\* client.go lines 183-203: HttpClient.Do returns o
GetPushReceiptsReturn ==
  /\ pc = "in_fetch"
  /\ \E o \in FetchOutcomes :
       /\ fetchLast' = o
       /\ IF HandleReceiptResponse(o) = FetchPanicked
            THEN pc' = "panic" /\ UNCHANGED fetchRet
            ELSE pc' = AfterFetch /\ fetchRet' = HandleReceiptResponse(o)
  /\ UNCHANGED <<entry, retryConfig, msgs, ctxErr, attempt, lastErr, resp, backoff,
                 timerFired, calls, inflight, last, wrRet, ret, cancelWait>>
  /\ UNCHANGED <<receiptDelay, delay, elapsed, results, ticketIDs, fetchCalls, sendRet,
                 cancelReceiptWait, pushResult, shouldRetry>>

(***************************************************************************)
(* Client.SendPushNotificationsWithReceipts                                *)
(***************************************************************************)
\* the early return left out
NothingToFetchNever(ids) == Len(ids) < 0

\* part_001 line 69
NothingToFetch(ids) == Len(ids) = 0

\* part_001 lines 39-71: Publish has returned; the results and the identifier
\* list are built, and the call returns or goes into the select statement
SendCollect ==
  /\ pc = "collect"
  /\ IF ret.err # NilErr
       THEN /\ sendRet' = SendFailed(Wrap("failed to send push notifications", ret.err))
            /\ pc' = "done"
            /\ UNCHANGED <<results, ticketIDs, delay>>
       ELSE /\ results' = CollectResults(ret.tickets)
            /\ ticketIDs' = CollectTicketIDs(ret.tickets)
            /\ delay' = EffectiveDelay(receiptDelay)
            /\ IF NothingToFetch(CollectTicketIDs(ret.tickets))
                 THEN /\ sendRet' = SendReturned(CollectResults(ret.tickets), NilErr)
                      /\ pc' = "done"
                 ELSE /\ pc' = "receipt_wait"
                      /\ UNCHANGED sendRet
  /\ UNCHANGED <<entry, retryConfig, msgs, ctxErr, attempt, lastErr, resp, backoff,
                 timerFired, calls, inflight, last, wrRet, ret, cancelWait>>
  /\ UNCHANGED <<receiptDelay, elapsed, fetchCalls, fetchLast, fetchRet,
                 cancelReceiptWait, pushResult, shouldRetry>>

\* time goes by while the call is suspended in the select statement
Tick ==
  /\ pc = "receipt_wait"
  /\ elapsed <= delay
  /\ \E u \in Instants : u > elapsed
  /\ elapsed' = NextInstant(elapsed)
  /\ UNCHANGED <<entry, retryConfig, msgs, ctxErr, pc, attempt, lastErr, resp, backoff,
                 timerFired, calls, inflight, last, wrRet, ret, cancelWait>>
  /\ UNCHANGED <<receiptDelay, delay, results, ticketIDs, fetchCalls, fetchLast, fetchRet,
                 sendRet, cancelReceiptWait, pushResult, shouldRetry>>

\* the channel of time.After(receiptDelay) is ready
ReceiptTimerReady == elapsed >= delay

\* part_001 lines 75-76: the select statement takes the case <-ctx.Done()
SelectReceiptCtxDone ==
  /\ pc = "receipt_wait"
  /\ ctxErr # NilErr
  /\ sendRet' = SendReturned(results, ctxErr)
  /\ pc' = "done"
  /\ UNCHANGED <<entry, retryConfig, msgs, ctxErr, attempt, lastErr, resp, backoff,
                 timerFired, calls, inflight, last, wrRet, ret, cancelWait>>
  /\ UNCHANGED <<receiptDelay, delay, elapsed, results, ticketIDs, fetchCalls, fetchLast,
                 fetchRet, cancelReceiptWait, pushResult, shouldRetry>>

\* part_001 lines 77-82: the select statement takes the case
\* <-time.After(receiptDelay); when both channels are ready Go chooses one of
\* the two cases at random
SelectReceiptTimer ==
  /\ pc = "receipt_wait"
  /\ ReceiptTimerReady
  /\ pc' = "fetch"
  /\ UNCHANGED <<entry, retryConfig, msgs, ctxErr, attempt, lastErr, resp, backoff,
                 timerFired, calls, inflight, last, wrRet, ret, cancelWait>>
  /\ UNCHANGED sendVars

\* part_001 lines 82-101: GetPushReceipts has returned; a nil receipt in the map
\* ends the matching loop in a panic, and nothing is returned
SendMatch ==
  /\ pc = "match"
  /\ IF fetchRet.err # NilErr
       THEN /\ sendRet' = ReceiptFetchFailed(results,
                            Wrap("failed to fetch push receipts", fetchRet.err))
            /\ pc' = "done"
            /\ UNCHANGED results
       ELSE IF MatchPanics(results, fetchRet.receipts)
         THEN /\ pc' = "panic"
              /\ UNCHANGED <<results, sendRet>>
         ELSE /\ results' = MatchReceipts(results, fetchRet.receipts)
              /\ sendRet' = SendReturned(MatchReceipts(results, fetchRet.receipts), NilErr)
              /\ pc' = "done"
  /\ UNCHANGED <<entry, retryConfig, msgs, ctxErr, attempt, lastErr, resp, backoff,
                 timerFired, calls, inflight, last, wrRet, ret, cancelWait>>
  /\ UNCHANGED <<receiptDelay, delay, elapsed, ticketIDs, fetchCalls, fetchLast, fetchRet,
                 cancelReceiptWait, pushResult, shouldRetry>>

(***************************************************************************)
(* PushResult.ShouldRetryToken called on its own                           *)
(***************************************************************************)
CallShouldRetryToken ==
  /\ pc = "classify"
  /\ shouldRetry' = ShouldRetryToken(pushResult)
  /\ pc' = "done"
  /\ UNCHANGED <<entry, retryConfig, msgs, ctxErr, attempt, lastErr, resp, backoff,
                 timerFired, calls, inflight, last, wrRet, ret, cancelWait>>
  /\ UNCHANGED <<receiptDelay, delay, elapsed, results, ticketIDs, fetchCalls, fetchLast,
                 fetchRet, sendRet, cancelReceiptWait, pushResult>>

Next ==
  \/ CallExponentialBackoff
  \/ TimerFire
  \/ Cancel
  \/ RetryLoop
  \/ SelectCtxDone
  \/ SelectTimer
  \/ FnCall
  \/ FnReturn
  \/ PublishValidate
  \/ PublishResponse
  \/ GetPushReceiptsCall
  \/ GetPushReceiptsReturn
  \/ SendCollect
  \/ Tick
  \/ SelectReceiptCtxDone
  \/ SelectReceiptTimer
  \/ SendMatch
  \/ CallShouldRetryToken

Spec == Init /\ [][Next]_vars

TypeOK ==
  /\ entry \in {"WithRetry", "Publish", "PublishSingle", "ExponentialBackoff",
                "SendPushNotificationsWithReceipts", "GetPushReceipts", "ShouldRetryToken"}
  /\ pc \in {"backoff", "publish", "retry_loop", "wait", "call", "in_fn", "publish_resp",
             "collect", "receipt_wait", "fetch", "in_fetch", "match", "classify",
             "done", "panic"}
  /\ fetchCalls \in Nat
  /\ elapsed \in Instants
  /\ cancelReceiptWait \in BOOLEAN
  /\ shouldRetry \in BOOLEAN
  /\ sendRet.resultsNil \in BOOLEAN
  /\ Len(results) >= Len(ticketIDs) \/ entry = "GetPushReceipts"
  /\ calls \in Nat
  /\ inflight \in Nat
  /\ attempt \in Int
  /\ timerFired \in BOOLEAN
  /\ ctxErr \in {NilErr} \cup CtxErrors
  /\ ret.ticketsNil \in BOOLEAN

(***************************************************************************)
(* Properties                                                              *)
(***************************************************************************)
IsPublishEntry == entry \in {"Publish", "PublishSingle"}

UsesWithRetry == entry \in {"WithRetry", "Publish", "PublishSingle"}

WithRetryReturned == wrRet # NoWithRetryRet

InWithRetry == pc \in {"retry_loop", "wait", "call", "in_fn"}

Min(a, b) == IF a <= b THEN a ELSE b

\* an invocation that returned a response, no transport error, and a status
\* outside 429, 500, 502, 503, 504
NonRetryableOutcome(o) ==
  /\ o.err = NilErr
  /\ ~o.resp.isNil
  /\ o.resp.StatusCode \notin {429, 500, 502, 503, 504}

\* an invocation that ended in a transport error or a retryable status
RetryableOutcome(o) ==
  \/ o.err \in TransportErrors \cup CtxErrors
  \/ o.err = NilErr /\ ~o.resp.isNil /\ o.resp.StatusCode \in {429, 500, 502, 503, 504}

\* C1: one call of WithRetry invokes the action at most MaxRetries+1 times, and
\* no invocation starts before the previous one has returned.
C1_AtMostMaxRetriesPlusOne ==
  UsesWithRetry => (calls <= Cfg.MaxRetries + 1 /\ inflight <= 1)

C1_Witness ==
  /\ entry = "WithRetry"
  /\ pc = "done"
  /\ Cfg.MaxRetries >= 1
  /\ calls = Cfg.MaxRetries + 1

\* C2: once an invocation has returned a non-retryable outcome, WithRetry has
\* returned that very response with a nil error and is out of its loop for good,
\* so the action is not invoked again, whatever attempts remain.
C2_StopsAtFirstNonRetryable ==
  (UsesWithRetry /\ NonRetryableOutcome(last)) =>
    (~InWithRetry /\ wrRet = Outcome(last.resp, NilErr))

C2_Witness ==
  /\ entry = "WithRetry"
  /\ pc = "done"
  /\ NonRetryableOutcome(last)
  /\ last.resp.StatusCode = 404
  /\ calls = 2
  /\ Cfg.MaxRetries = 2

\* C3: when all MaxRetries+1 invocations ended in a transport error or a retryable
\* status and the context was never cancelled, WithRetry returns no response and
\* the error of the last invocation: its transport error, or the retryable-error
\* marker when it returned a retryable status.
C3_ExhaustedReturnsLastError ==
  (/\ UsesWithRetry
   /\ WithRetryReturned
   /\ ctxErr = NilErr
   /\ calls = Cfg.MaxRetries + 1
   /\ calls >= 1
   /\ RetryableOutcome(last)) =>
    (/\ wrRet.resp = NilResp
     /\ IF last.err # NilErr
          THEN wrRet.err = last.err
          ELSE wrRet.err.msg = "retryable error" /\ wrRet.err.Response = last.resp)

C3_Witness ==
  /\ entry = "WithRetry"
  /\ pc = "done"
  /\ ctxErr = NilErr
  /\ Cfg.MaxRetries = 2
  /\ calls = 3
  /\ last.err = NilErr
  /\ ~last.resp.isNil
  /\ last.resp.StatusCode = 503
  /\ wrRet.err.msg = "retryable error"

\* C4 (as claimed): if the context is cancelled while WithRetry is suspended in
\* the wait before attempt k >= 1, the action is not invoked for attempt k or any
\* later attempt and WithRetry returns the cancellation error, also when the
\* timer has expired by the time the wait is resolved.
C4_CancellationWinsTheWait ==
  (UsesWithRetry /\ cancelWait >= 1) =>
    (/\ calls <= cancelWait
     /\ WithRetryReturned => wrRet = Outcome(NilResp, ctxErr))

\* the value math.Pow has on integers, by the built-in power
MathPow(b, e) == IF e = 0 THEN 1 ELSE b ^ e

\* C5: ExponentialBackoff(attempt) is InitialInterval for attempt <= 0 and
\* min(InitialInterval * Multiplier^(attempt-1), MaxInterval) for attempt >= 1,
\* for integer intervals and integer multipliers.
C5_BackoffFormula ==
  (entry = "ExponentialBackoff" /\ pc = "done" /\ retryConfig.Multiplier.den = 1) =>
    backoff = IF attempt <= 0
                THEN retryConfig.InitialInterval
                ELSE Min(retryConfig.InitialInterval
                           * MathPow(retryConfig.Multiplier.num, attempt - 1),
                         retryConfig.MaxInterval)

C5_Witness ==
  /\ entry = "ExponentialBackoff"
  /\ pc = "done"
  /\ retryConfig.Multiplier = Float(2, 1)
  /\ retryConfig.InitialInterval = 1
  /\ retryConfig.MaxInterval = 3
  /\ attempt = 3
  /\ backoff = 3

\* the batch fails validation: a message without recipients, a nil or empty
\* recipient token, or more than 100 messages
InvalidBatch(ms) ==
  \/ \E i \in 1..Len(ms) : Len(ms[i].To) = 0
  \/ \E i \in 1..Len(ms) : \E j \in 1..Len(ms[i].To) :
        ms[i].To[j].isNil \/ ms[i].To[j].str = <<>>
  \/ Len(ms) > 100

\* C6: a batch that fails validation is rejected with an error and no tickets,
\* and no transport call, no retry and no wait is ever made for it.
C6_InvalidBatchRejected ==
  (IsPublishEntry /\ InvalidBatch(msgs)) =>
    (/\ pc \in {"publish", "done"}
     /\ calls = 0
     /\ attempt = 0
     /\ pc = "done" => (ret.ticketsNil /\ ret.err # NilErr /\ ~WithRetryReturned))

C6_Witness ==
  /\ entry = "Publish"
  /\ pc = "done"
  /\ Len(msgs) = 101
  /\ \A i \in 1..Len(msgs) : msgs[i].To = <<ValidToken>>
  /\ ret.ticketsNil
  /\ ret.err.msg = "too many notifications"

\* some recipient token is non-empty and lacks the ExponentPushToken prefix
HasMalformedToken(ms) ==
  \E i \in 1..Len(ms) : \E j \in 1..Len(ms[i].To) :
    /\ ~ms[i].To[j].isNil
    /\ ms[i].To[j].str # <<>>
    /\ ~IsPushTokenValid(ms[i].To[j].str)

\* C7 (as claimed): a batch with a malformed recipient token is rejected with an
\* error and no tickets before any network call.
C7_MalformedTokenRejected ==
  (IsPublishEntry /\ HasMalformedToken(msgs)) =>
    (/\ calls = 0
     /\ pc = "done" => (ret.ticketsNil /\ ret.err # NilErr))

RECURSIVE RecipientsIn(_, _, _)
\* r_lo + ... + r_hi
RecipientsIn(ms, lo, hi) ==
  IF lo > hi THEN 0
  ELSE IF lo = hi THEN Len(ms[lo].To)
  ELSE RecipientsIn(ms, lo, (lo + hi) \div 2) + RecipientsIn(ms, (lo + hi) \div 2 + 1, hi)

\* r1 + ... + rN
SumRecipients(ms) == RecipientsIn(ms, 1, Len(ms))

\* the reply publish works on is a 2xx reply whose body holds a data array
ReplyWithData ==
  /\ NonRetryableOutcome(last)
  /\ last.resp.StatusCode \in 200..299
  /\ last.resp.Body.kind = "object"
  /\ ~last.resp.Body.DataNil

\* C8: publish returns tickets only if the data array has exactly r1+...+rN
\* entries; a 2xx reply with a data array of any other length makes publish
\* return a server-contract error and no tickets, never a partial list.
C8_CountMismatchIsFatal ==
  (IsPublishEntry /\ ~InvalidBatch(msgs) /\ pc \in {"done", "panic"}) =>
    (/\ (pc = "done" /\ ~ret.ticketsNil) =>
          (/\ ReplyWithData
           /\ Len(last.resp.Body.Data) = SumRecipients(msgs)
           /\ Len(ret.tickets) = SumRecipients(msgs))
     /\ (ReplyWithData /\ Len(last.resp.Body.Data) # SumRecipients(msgs)) =>
          (/\ pc = "done"
           /\ ret.ticketsNil
           /\ IF last.resp.Body.ErrorsNil
                THEN /\ ret.err.msg = "mismatched response length"
                     /\ ret.err.expected = SumRecipients(msgs)
                     /\ ret.err.received = Len(last.resp.Body.Data)
                ELSE ret.err = ErrInvalidRequest))

C8_Witness ==
  /\ entry = "Publish"
  /\ pc = "done"
  /\ Len(msgs) = 2
  /\ ReplyWithData
  /\ last.resp.Body.ErrorsNil
  /\ SumRecipients(msgs) = 4
  /\ Len(last.resp.Body.Data) = 3
  /\ ret.ticketsNil

\* C9: on a successful publish the returned list is the server's data array in
\* its order, one ticket per (message, recipient) pair, and for every message j
\* the tickets at the indices r1+...+r(j-1)+1 .. r1+...+rj are the ones that
\* carry message j as MessageItem.
C9_PositionalPairing ==
  (IsPublishEntry /\ pc = "done" /\ ~ret.ticketsNil) =>
    (/\ Len(ret.tickets) = Len(last.resp.Body.Data)
     /\ Len(ret.tickets) = SumRecipients(msgs)
     /\ \A i \in 1..Len(ret.tickets) :
          [ret.tickets[i] EXCEPT !.MessageItem = NoMessage] = last.resp.Body.Data[i]
     /\ \A j \in 1..Len(msgs) :
          LET first == RecipientsIn(msgs, 1, j - 1) + 1
              end == RecipientsIn(msgs, 1, j)
          IN  \A i \in first..end : ret.tickets[i].MessageItem = msgs[j])

C9_Witness ==
  /\ entry = "Publish"
  /\ pc = "done"
  /\ ~ret.ticketsNil
  /\ Len(msgs) = 2
  /\ Len(msgs[1].To) = 2
  /\ Len(msgs[2].To) = 1
  /\ msgs[1].ptr # msgs[2].ptr
  /\ ret.tickets[2].MessageItem = msgs[1]
  /\ ret.tickets[3].MessageItem = msgs[2]
  /\ ret.tickets[2].Status = "error"

\* C10: whenever Publish or PublishSingle returns an error the ticket list is
\* nil, and whenever it returns tickets the error is nil.
C10_FailFast ==
  (IsPublishEntry /\ pc = "done") =>
    (/\ ret.err # NilErr => (ret.ticketsNil /\ ret.tickets = <<>>)
     /\ ~ret.ticketsNil => ret.err = NilErr)

C10_Witness ==
  /\ entry = "PublishSingle"
  /\ pc = "done"
  /\ cancelWait >= 1
  /\ ret.err \in CtxErrors
  /\ ret.ticketsNil

\* an invocation that returned a response with a non-retryable status outside
\* 200-299
NonRetryableFailure(o) ==
  /\ NonRetryableOutcome(o)
  /\ o.resp.StatusCode \notin 200..299

\* C11: a response with a non-retryable status outside 200-299 is not retried and
\* not decoded: it ends the executor with the call that received it as the last
\* one, and publish returns the 'invalid response' error of that status and no
\* tickets.
C11_NonRetryableStatusSurfaced ==
  (IsPublishEntry /\ NonRetryableFailure(last)) =>
    (/\ pc \in {"publish_resp", "done"}
     /\ calls = attempt + 1
     /\ pc = "done" => ret = Failed(ErrInvalidResponse(last.resp.StatusCode)))

C11_Witness ==
  /\ entry = "Publish"
  /\ pc = "done"
  /\ last.err = NilErr
  /\ ~last.resp.isNil
  /\ last.resp.StatusCode = 301
  /\ calls = 2
  /\ ret.ticketsNil
  /\ ret.err.msg = "invalid response"

\* the reply publish works on is a 2xx reply whose body is a JSON object with
\* no null ticket in it
ReplyWithObject ==
  /\ NonRetryableOutcome(last)
  /\ last.resp.StatusCode \in 200..299
  /\ last.resp.Body.kind = "object"
  /\ \A i \in 1..Len(last.resp.Body.Data) : ~last.resp.Body.Data[i].isNil

\* the body carries one or more error entries
HasErrorEntries(b) == ~b.ErrorsNil /\ Len(b.Errors) >= 1

\* C12 (as claimed): for a 2xx reply publish returns 'invalid request' exactly
\* when the body carries one or more error entries; a body whose errors list is
\* absent or empty and whose data array has the expected length gives the
\* tickets; a body with neither data nor error entries gives a server-contract
\* error.
C12_ErrorObjectOrTickets ==
  (IsPublishEntry /\ pc = "done" /\ ReplyWithObject) =>
    LET b == last.resp.Body
    IN  /\ (ret.err = ErrInvalidRequest) <=> HasErrorEntries(b)
        /\ (~HasErrorEntries(b) /\ ~b.DataNil /\ Len(b.Data) = SumRecipients(msgs)) =>
             (~ret.ticketsNil /\ ret.err = NilErr)
        /\ (~HasErrorEntries(b) /\ b.DataNil) =>
             (ret.ticketsNil /\ ret.err.msg = "invalid server response")

\* C13 (as claimed): Publish of a zero-length batch makes no network call and
\* returns an empty result without error.
C13_EmptyBatchPassthrough ==
  (entry = "Publish" /\ Len(msgs) = 0) =>
    (/\ calls = 0
     /\ pc \in {"publish", "done"}
     /\ pc = "done" => (ret.err = NilErr /\ ret.tickets = <<>>))

IsSendEntry == entry = "SendPushNotificationsWithReceipts"

\* Publish has returned tickets and the results have been built of them
Collected == IsSendEntry /\ ret.err = NilErr /\ pc # "collect"

HasID(t) == t.ID # <<>>

OkWithID(t) == t.Status = "ok" /\ t.ID # <<>>

\* the identifiers of the tickets that carry one, in ticket order
NonEmptyIDs(tickets) ==
  LET withID == SelectSeq(tickets, HasID)
  IN  [i \in 1..Len(withID) |-> withID[i].ID]

\* the identifiers of the tickets with status "ok" that carry one, in ticket order
OkIDs(tickets) ==
  LET okWithID == SelectSeq(tickets, OkWithID)
  IN  [i \in 1..Len(okWithID) |-> okWithID[i].ID]

\* the result is a terminal entry made of ticket t
TerminalEntry(r, t) ==
  /\ r.TicketID = <<>>
  /\ r.PushTicket = t
  /\ r.Message = t.MessageItem
  /\ r.PushReceipt.isNil
  /\ r.Error = [msg |-> "push ticket error", text |-> t.Message]

\* C14 (as claimed): the identifier list handed to the receipt fetch is exactly
\* the identifiers of all tickets with a non-empty ID, in ticket order, and every
\* ticket with an empty ID is a terminal entry with a ticket-level error.
C14_EligibleIffHasID ==
  Collected =>
    (/\ ticketIDs = NonEmptyIDs(ret.tickets)
     /\ Len(results) = Len(ret.tickets)
     /\ \A i \in 1..Len(ret.tickets) :
          ret.tickets[i].ID = <<>> => TerminalEntry(results[i], ret.tickets[i]))

\* C14 (amended): a ticket is eligible exactly when its status is "ok" and its
\* identifier is non-empty: the identifier list handed to the receipt fetch is
\* exactly the identifiers of those tickets, in ticket order, and every other
\* ticket is a terminal entry with a ticket-level error.
C14_EligibleIffOkWithID ==
  Collected =>
    (/\ ticketIDs = OkIDs(ret.tickets)
     /\ Len(results) = Len(ret.tickets)
     /\ \A i \in 1..Len(ret.tickets) :
          IF OkWithID(ret.tickets[i])
            THEN results[i].TicketID = ret.tickets[i].ID
            ELSE TerminalEntry(results[i], ret.tickets[i]))

C14_Witness ==
  /\ IsSendEntry
  /\ pc = "in_fetch"
  /\ Len(ret.tickets) = 4
  /\ ret.tickets[2].Status = "error"
  /\ ret.tickets[2].ID = <<2>>
  /\ ticketIDs = <<<<1>>, <<3>>>>
  /\ results[2].Error.msg = "push ticket error"

\* C15: when no ticket of the publish step is eligible, the call has returned
\* the terminal entries and a nil error as soon as the results are built: it has
\* never been in the wait and has made no receipt fetch, whatever receiptDelay is
\* and whether or not the context is cancelled.
C15_NoEligibleReturnsAtOnce ==
  (Collected /\ \A i \in 1..Len(ret.tickets) : ~OkWithID(ret.tickets[i])) =>
    (/\ pc = "done"
     /\ sendRet = SendReturned(results, NilErr)
     /\ Len(results) = Len(ret.tickets)
     /\ \A i \in 1..Len(results) : TerminalEntry(results[i], ret.tickets[i])
     /\ elapsed = 0
     /\ ~cancelReceiptWait
     /\ fetchCalls = 0
     /\ fetchRet = NoFetchRet)

C15_Witness ==
  /\ IsSendEntry
  /\ pc = "done"
  /\ ctxErr # NilErr
  /\ receiptDelay = 0
  /\ Len(ret.tickets) = 3
  /\ \A i \in 1..3 : ret.tickets[i].Status = "error"
  /\ sendRet.err = NilErr
  /\ Len(sendRet.results) = 3

\* the receipt fetch has been issued
FetchIssued ==
  IsSendEntry /\ (pc \in {"fetch", "in_fetch", "match"} \/ fetchRet # NoFetchRet \/ fetchCalls > 0)

\* C16: the wait before the receipt fetch is for receiptDelay, a receiptDelay of
\* zero being replaced by 15 minutes, and the fetch is issued only when that
\* time has gone by since the wait began.
C16_FetchAfterDelay ==
  LET expected == IF receiptDelay = 0 THEN 15 * 60 ELSE receiptDelay
  IN  /\ (IsSendEntry /\ pc = "receipt_wait") => delay = expected
      /\ FetchIssued => elapsed >= expected

C16_Witness ==
  /\ IsSendEntry
  /\ pc = "in_fetch"
  /\ receiptDelay = 0
  /\ elapsed = 15 * 60
  /\ fetchCalls = 1

\* C17 (as claimed): once the context is cancelled during the wait before the
\* receipt fetch, no receipt-fetch transport call is made, and the call returns
\* the cancellation error with the results built so far, none with a receipt.
C17_CancelAbandonsReceiptWait ==
  (IsSendEntry /\ cancelReceiptWait) =>
    (/\ fetchCalls = 0
     /\ pc = "done" =>
          (/\ sendRet = SendReturned(results, ctxErr)
           /\ \A i \in 1..Len(results) : results[i].PushReceipt.isNil))

\* the result is made of ticket t and has no receipt
PendingOrTerminal(r, t) ==
  IF OkWithID(t)
    THEN r = PushResult(t.ID, t.MessageItem, t, NilPushReceipt, NilErr)
    ELSE TerminalEntry(r, t)

\* C18: when GetPushReceipts returns an error, the call returns that error
\* (wrapped) together with one result per ticket: the terminal entries with their
\* ticket-level error and the eligible entries with their ticket, no receipt and
\* no error.
C18_FetchFailureKeepsResults ==
  (IsSendEntry /\ pc = "done" /\ fetchRet # NoFetchRet /\ fetchRet.err # NilErr) =>
    (/\ ~sendRet.resultsNil
     /\ sendRet.err = [msg |-> "failed to fetch push receipts", cause |-> fetchRet.err]
     /\ Len(sendRet.results) = Len(ret.tickets)
     /\ \A i \in 1..Len(ret.tickets) : PendingOrTerminal(sendRet.results[i], ret.tickets[i]))

C18_Witness ==
  /\ IsSendEntry
  /\ pc = "done"
  /\ fetchCalls = 1
  /\ fetchLast.err = NilErr
  /\ fetchLast.resp.StatusCode = 503
  /\ sendRet.err.msg = "failed to fetch push receipts"
  /\ Len(sendRet.results) = 4
  /\ sendRet.results[1].TicketID = <<1>>
  /\ sendRet.results[1].Error = NilErr
  /\ sendRet.results[2].Error.msg = "push ticket error"

\* C19: after a receipt fetch that returned no error, an eligible result has a
\* receipt exactly when the receipt map has an entry for its ticket ID (that
\* entry), it has an error, the receipt-level one, exactly when that receipt's
\* status is not "ok", the results of the other tickets are the terminal entries
\* as built, and the call returns a nil error.
C19_ReceiptsMatched ==
  (IsSendEntry /\ pc = "done" /\ fetchRet # NoFetchRet /\ fetchRet.err = NilErr) =>
    (/\ sendRet.err = NilErr
     /\ ~sendRet.resultsNil
     /\ Len(sendRet.results) = Len(ret.tickets)
     /\ \A i \in 1..Len(ret.tickets) :
          LET t == ret.tickets[i]
              r == sendRet.results[i]
              m == fetchRet.receipts
          IN  IF OkWithID(t)
                THEN /\ r.TicketID = t.ID
                     /\ r.PushTicket = t
                     /\ IF t.ID \in DOMAIN m
                          THEN /\ r.PushReceipt = m[t.ID]
                               /\ ~r.PushReceipt.isNil
                               /\ IF m[t.ID].Status = "ok"
                                    THEN r.Error = NilErr
                                    ELSE r.Error = [msg |-> "push receipt error",
                                                    text |-> m[t.ID].Message]
                          ELSE /\ r.PushReceipt.isNil
                               /\ r.Error = NilErr
                ELSE TerminalEntry(r, t))

C19_Witness ==
  /\ IsSendEntry
  /\ pc = "done"
  /\ sendRet.err = NilErr
  /\ Len(sendRet.results) = 4
  /\ sendRet.results[1].PushReceipt.Status = "ok"
  /\ sendRet.results[1].Error = NilErr
  /\ sendRet.results[2].TicketID = <<2>>
  /\ sendRet.results[2].PushReceipt.isNil
  /\ sendRet.results[2].Error = NilErr
  /\ sendRet.results[3].PushReceipt.Status = "error"
  /\ sendRet.results[3].Error.msg = "push receipt error"

\* C20 (as claimed): ShouldRetryToken is true exactly when the result has an
\* error and has either no receipt or a receipt whose details error code is not
\* DeviceNotRegistered; a result with no error is never retry-eligible.
C20_RetryEligibleIffErrorAndNotTerminal ==
  (entry = "ShouldRetryToken" /\ pc = "done") =>
    LET rc == pushResult.PushReceipt
        code == IF rc.isNil \/ rc.Details.isNil \/ ~rc.Details.hasError
                  THEN "" ELSE rc.Details.error
    IN  shouldRetry = (/\ pushResult.Error # NilErr
                       /\ (rc.isNil \/ code # "DeviceNotRegistered"))

\* the error code of the details of receipt rc, "" when there is none
DetailsCode(rc) ==
  IF rc.Details.isNil \/ ~rc.Details.hasError THEN "" ELSE rc.Details.error

\* the call has returned a result list
SendReturnedResults == IsSendEntry /\ pc = "done" /\ ~sendRet.resultsNil

\* C21: a returned result whose receipt is not ok is terminal (not retry-eligible,
\* not successful) when the receipt's details error code is DeviceNotRegistered,
\* and is retry-eligible for any other non-ok receipt (another code, empty
\* details, no details).
C21_NonOkReceiptClassified ==
  SendReturnedResults =>
    \A i \in 1..Len(sendRet.results) :
      LET r == sendRet.results[i]
      IN  (~r.PushReceipt.isNil /\ r.PushReceipt.Status # "ok") =>
            IF DetailsCode(r.PushReceipt) = "DeviceNotRegistered"
              THEN ~ShouldRetryToken(r) /\ ~IsSuccessful(r)
              ELSE ShouldRetryToken(r)

C21_Witness ==
  /\ SendReturnedResults
  /\ Len(sendRet.results) = 4
  /\ sendRet.results[3].PushReceipt.Status = "error"
  /\ DetailsCode(sendRet.results[3].PushReceipt) = "DeviceNotRegistered"
  /\ ~ShouldRetryToken(sendRet.results[3])
  /\ sendRet.results[4].PushReceipt.Status = "error"
  /\ sendRet.results[4].PushReceipt.Details = EmptyDetails
  /\ ShouldRetryToken(sendRet.results[4])

\* C22: GetPushReceipts called with an empty identifier list makes no transport
\* call and returns an empty, non-nil map and a nil error.
C22_EmptyListNoCall ==
  (entry = "GetPushReceipts" /\ Len(ticketIDs) = 0) =>
    (/\ fetchCalls = 0
     /\ pc \in {"fetch", "done"}
     /\ pc = "done" =>
          (/\ ~fetchRet.mapNil
           /\ DOMAIN fetchRet.receipts = {}
           /\ fetchRet.err = NilErr))

C22_Witness ==
  /\ entry = "GetPushReceipts"
  /\ ticketIDs = <<>>
  /\ pc = "done"
  /\ fetchCalls = 0
  /\ ~fetchRet.mapNil
  /\ fetchRet.err = NilErr

UsesGetPushReceipts == IsSendEntry \/ entry = "GetPushReceipts"

GetPushReceiptsReturned == fetchRet # NoFetchRet

\* C23: the eligible identifiers of one call all go into one GetPushReceipts
\* call, which makes at most one transport call; a list of more than 1000
\* identifiers is answered with the too-many-IDs error without a transport call,
\* and the workflow then returns that error with no receipt on any result; a
\* list of 1 to 1000 identifiers is sent.
C23_NoAutoChunking ==
  UsesGetPushReceipts =>
    (/\ fetchCalls <= 1
     /\ FetchIssued => ticketIDs = OkIDs(ret.tickets)
     /\ Len(ticketIDs) > 1000 => (fetchCalls = 0 /\ pc # "in_fetch")
     /\ (GetPushReceiptsReturned /\ Len(ticketIDs) > 1000) =>
          (/\ fetchRet.mapNil
           /\ fetchRet.err = [msg |-> "too many ticket IDs", n |-> Len(ticketIDs),
                              max |-> 1000]
           /\ (IsSendEntry /\ pc = "done") =>
                (/\ sendRet.err.cause = fetchRet.err
                 /\ \A i \in 1..Len(sendRet.results) :
                      sendRet.results[i].PushReceipt.isNil))
     /\ (GetPushReceiptsReturned /\ Len(ticketIDs) \in 1..1000) => fetchCalls = 1)

C23_Witness ==
  /\ IsSendEntry
  /\ pc = "match"
  /\ Len(msgs) <= 100
  /\ Len(ticketIDs) > 1000
  /\ Len(ticketIDs) = Len(ret.tickets)
  /\ fetchCalls = 0
  /\ fetchRet.mapNil
  /\ fetchRet.err.msg = "too many ticket IDs"
  /\ \A i \in 1..Len(results) : results[i].PushReceipt.isNil

\* the invocation ended in a transport error or a retryable status
RetryableFetchOutcome(o) ==
  \/ o.err \in TransportErrors \cup CtxErrors
  \/ o.err = NilErr /\ ~o.resp.isNil /\ o.resp.StatusCode \in {429, 500, 502, 503, 504}

\* C24: one GetPushReceipts call invokes the transport at most once and goes
\* through no backoff wait and no retry loop; an invocation that ends in a
\* transport error or a retryable status makes GetPushReceipts return at once
\* with that error (the 'invalid response' error for a status).
C24_FetchIsNotRetried ==
  UsesGetPushReceipts =>
    (/\ fetchCalls <= 1
     /\ entry = "GetPushReceipts" =>
          (/\ pc \in {"fetch", "in_fetch", "done", "panic"}
           /\ calls = 0
           /\ attempt = 0
           /\ backoff = 0
           /\ ~timerFired)
     /\ fetchCalls = 1 => pc \in {"in_fetch", "match", "done", "panic"}
     /\ RetryableFetchOutcome(fetchLast) =>
          (/\ pc \in {"match", "done"}
           /\ fetchRet.mapNil
           /\ fetchRet.err = IF fetchLast.err # NilErr
                               THEN fetchLast.err
                               ELSE [msg |-> "invalid response",
                                     StatusCode |-> fetchLast.resp.StatusCode]))

C24_Witness ==
  /\ entry = "GetPushReceipts"
  /\ pc = "done"
  /\ fetchCalls = 1
  /\ fetchLast.err = NilErr
  /\ fetchLast.resp.StatusCode = 503
  /\ fetchRet.err.msg = "invalid response"

\* the entries that go through Client.WithRetry
RunsWithRetry == UsesWithRetry \/ IsSendEntry

\* C25: WithRetry never returns a nil response together with a nil error,
\* whatever the RetryConfig (MaxRetries zero or negative included) and whatever
\* the action returns (a nil response with a nil error included).
C25_NeverNilResponseWithNilError ==
  (RunsWithRetry /\ WithRetryReturned) => ~(wrRet.resp.isNil /\ wrRet.err = NilErr)

\* the three outcome classes of a result
TerminalByReceipt(r) ==
  ~r.PushReceipt.isNil /\ DetailsCode(r.PushReceipt) = ErrorMsgDeviceNotRegistered

ClassesOf(r) ==
  (IF IsSuccessful(r) THEN {"successful"} ELSE {})
    \cup (IF ShouldRetryToken(r) THEN {"retry-eligible"} ELSE {})
    \cup (IF TerminalByReceipt(r) THEN {"terminal"} ELSE {})

\* C26: every result returned by SendPushNotificationsWithReceipts is in exactly
\* one of the classes successful (IsSuccessful), retry-eligible
\* (ShouldRetryToken) and terminal by a DeviceNotRegistered receipt.
C26_ExactlyOneClass ==
  SendReturnedResults =>
    \A i \in 1..Len(sendRet.results) : Cardinality(ClassesOf(sendRet.results[i])) = 1

\* Publish has returned an error to SendPushNotificationsWithReceipts
PublishStepFailed == IsSendEntry /\ ret # NoRet /\ ret.err # NilErr

\* C27: a result list returned by SendPushNotificationsWithReceipts has one entry
\* for each ticket Publish returned, in ticket order, and entry i holds ticket i
\* and the message ticket i came from; when Publish fails the list is nil, the
\* error is the wrapped error of Publish, and there is no wait and no receipt fetch.
C27_OneResultPerTicket ==
  /\ SendReturnedResults =>
       (/\ ret.err = NilErr
        /\ Len(sendRet.results) = Len(ret.tickets)
        /\ Len(sendRet.results) = Len(expandedMessages(msgs))
        /\ \A i \in 1..Len(sendRet.results) :
             /\ sendRet.results[i].PushTicket = ret.tickets[i]
             /\ sendRet.results[i].Message = ret.tickets[i].MessageItem
             /\ sendRet.results[i].Message = expandedMessages(msgs)[i])
  /\ PublishStepFailed =>
       (/\ pc \in {"collect", "done"}
        /\ elapsed = 0
        /\ ~cancelReceiptWait
        /\ fetchCalls = 0
        /\ fetchRet = NoFetchRet
        /\ pc = "done" =>
             (/\ sendRet.resultsNil
              /\ sendRet.err = Wrap("failed to send push notifications", ret.err)))
  /\ (IsSendEntry /\ pc = "done" /\ sendRet.resultsNil) => PublishStepFailed

C27_Witness ==
  /\ SendReturnedResults
  /\ cancelReceiptWait
  /\ sendRet.err \in CtxErrors
  /\ fetchCalls = 0
  /\ Len(msgs) = 2
  /\ msgs[1] # msgs[2]
  /\ Len(sendRet.results) = Len(msgs[1].To) + 1
  /\ Len(msgs[1].To) >= 2
  /\ sendRet.results[1].Message = msgs[1]
  /\ sendRet.results[2].Message = msgs[1]
  /\ sendRet.results[Len(sendRet.results)].Message = msgs[2]
  /\ sendRet.results[Len(sendRet.results)].PushTicket = ret.tickets[Len(ret.tickets)]

\* C28: in WithRetry a backoff wait comes before every invocation of the action
\* but the first and nowhere else: the first invocation is made without a wait
\* and without a look at the context, the wait before the k-th retry is
\* ExponentialBackoff(k), which for the first retry is InitialInterval capped at
\* MaxInterval, and no wait is longer than MaxInterval.
C28_WaitBeforeEveryRetryOnly ==
  RunsWithRetry =>
    (/\ pc = "wait" =>
          (/\ attempt >= 1
           /\ calls = attempt
           /\ LoopCondition(Cfg, attempt)
           /\ backoff = ExponentialBackoff(Cfg, attempt)
           /\ attempt = 1 => backoff = Min(Cfg.InitialInterval, Cfg.MaxInterval)
           /\ backoff <= Cfg.MaxInterval)
     /\ pc \in {"call", "in_fn"} =>
          (/\ calls = IF pc = "call" THEN attempt ELSE attempt + 1
           /\ IF attempt = 0
                THEN backoff = 0 /\ ~timerFired /\ cancelWait = -1
                ELSE /\ timerFired
                     /\ backoff = ExponentialBackoff(Cfg, attempt)
                     /\ backoff <= Cfg.MaxInterval)
     /\ (WithRetryReturned /\ Cfg.MaxRetries >= 0) => calls >= 1)

C28_Witness ==
  /\ entry = "WithRetry"
  /\ Cfg.InitialInterval > Cfg.MaxInterval
  /\ pc = "in_fn"
  /\ attempt = 1
  /\ calls = 2
  /\ timerFired
  /\ backoff = Cfg.MaxInterval

====
